---- MODULE Spec2Model ----
\* A model of paperang.py: the Paperang session object, its checksum key
\* state, the frame codec (packPerBytes / resultParser), the chunker
\* (addBytesToList) and the send / receive operations over the RFCOMM socket.
EXTENDS Integers, Sequences, FiniteSets, TLC

VARIABLES
    obj,        \* "none": not constructed, "live": __init__ returned, "dead": __init__ raised
    address,    \* self.address: "None" or "addr"
    crckeyset,  \* self.crckeyset
    crcKey,     \* self.crcKey (NoKey while the attribute does not exist)
    connected,  \* self.connected: "unset", "True", "False"
    sock,       \* self.sock: "noattr", "unconnected", "open", "closed"
    service,    \* self.service: "noattr" or "set"
    firstCmd,   \* command byte of the first frame handed to the current socket, NoCmd if none
    call,       \* the most recent call of a public method: arguments and outcome
    wire        \* transport events (sock.send / sock.recv) of the most recent call, in order

vars == <<obj, address, crckeyset, crcKey, connected, sock, service,
          firstCmd, call, wire>>

----------------------------------------------------------------------------
\* Bounds of the model.

\* Chunk size used when checking; the program's max_send_msg_length is 1536
\* (paperang.py line 98).  All chunking definitions are parametric in it; it
\* is kept at least 4 so that the set-key message fits one chunk, as it does
\* in the program.
max_send_msg_length == 4

\* sock.send may raise at chunk index 0..MaxFailAt of a call (or not at all).
MaxFailAt == 1

\* discover_devices finds 0..MaxDevices printers, find_service 0..MaxServices
\* serial-port services.
MaxDevices == 2
MaxServices == 1

----------------------------------------------------------------------------
\* 32-bit unsigned integers, kept as two 16-bit halves.

W(hi, lo) == [hi |-> hi, lo |-> lo]

RECURSIVE XorN(_, _, _)
XorN(a, b, n) ==
    IF n = 0 THEN 0
    ELSE ((a + b) % 2) + 2 * XorN(a \div 2, b \div 2, n - 1)

\* XOR of 4-bit values, tabulated once.
Xor4 == [a \in 0..15 |-> [b \in 0..15 |-> XorN(a, b, 4)]]

Xor8(a, b) == Xor4[a % 16][b % 16] + 16 * Xor4[a \div 16][b \div 16]
Xor16(a, b) == Xor8(a % 256, b % 256) + 256 * Xor8(a \div 256, b \div 256)
Xor32(x, y) == W(Xor16(x.hi, y.hi), Xor16(x.lo, y.lo))

Shr1(x) == W(x.hi \div 2, (x.lo \div 2) + 32768 * (x.hi % 2))

\* Reflected CRC-32 polynomial 0xEDB88320 and the all-ones word 0xFFFFFFFF.
CrcPoly == W(60856, 33568)
AllOnes == W(65535, 65535)

RECURSIVE CrcBits(_, _)
CrcBits(c, n) ==
    IF n = 0 THEN c
    ELSE CrcBits(IF c.lo % 2 = 1 THEN Xor32(Shr1(c), CrcPoly) ELSE Shr1(c), n - 1)

\* The CRC table of zlib: entry b is byte b pushed through eight shift steps.
CrcTable == [b \in 0..255 |-> CrcBits(W(0, b), 8)]

Shr8(x) == W(x.hi \div 256, (x.lo \div 256) + 256 * (x.hi % 256))

RECURSIVE CrcBytes(_, _, _)
CrcBytes(c, content, i) ==
    IF i > Len(content) THEN c
    ELSE CHOOSE r \in {CrcBytes(n, content, i + 1) :
                          n \in {Xor32(CrcTable[Xor8(c.lo % 256, content[i])], Shr8(c))}} :
            TRUE

\* zlib.crc32(content, value): the running CRC starts from value.
zlib_crc32(content, value) ==
    Xor32(CrcBytes(Xor32(value, AllOnes), content, 1), AllOnes)

----------------------------------------------------------------------------
\* Class constants.

standardKey == W(13686, 38177)      \* 0x35769521
DefaultKey  == W(1720, 61273)       \* 0x6968634 ^ 0x2E696D
NoKey       == W(-1, -1)            \* self.crcKey not assigned yet

padding_line == 300

PRT_PRINT_DATA       == 0
PRT_SENT_STATUS      == 13
PRT_SENT_BAT_STATUS  == 17
PRT_SET_CRC_KEY      == 24
PRT_SET_HEAT_DENSITY == 25
PRT_FEED_LINE        == 26
PRT_SET_PAPER_TYPE   == 44
NoCmd == 0 - 1      \* no command byte

----------------------------------------------------------------------------
\* struct.pack / struct.unpack, little-endian.

CanPackB(v) == v \in 0..255
packH(v) == <<v % 256, v \div 256>>
packI(w) == <<w.lo % 256, w.lo \div 256, w.hi % 256, w.hi \div 256>>

Min(a, b) == IF a < b THEN a ELSE b

\* Python slice data[a:b] of a sequence (0-based, clamped to the length).
Slice(data, a, b) ==
    LET lo == Min(a, Len(data))
        hi == Min(b, Len(data))
    IN  IF hi <= lo THEN <<>> ELSE SubSeq(data, lo + 1, hi)

----------------------------------------------------------------------------
\* Paperang.crc32, packPerBytes, addBytesToList.

crc32(content) ==
    zlib_crc32(content, IF crckeyset THEN crcKey ELSE standardKey)

\* struct.pack("<BBB", 2, control_command, i) raises struct.error when a
\* field does not fit a byte.
packRaises(control_command, i) == ~(CanPackB(control_command) /\ CanPackB(i))

\* packPerBytes with the length field packed big-endian.
packPerBytes_BigEndianLength(bytes, control_command, i) ==
    <<2, control_command, i>> \o <<Len(bytes) \div 256, Len(bytes) % 256>> \o bytes
    \o packI(crc32(bytes)) \o <<3>>

\* The frame packPerBytes returns when it does not raise.
packPerBytes(bytes, control_command, i) ==
    <<2, control_command, i>> \o packH(Len(bytes)) \o bytes
    \o packI(crc32(bytes)) \o <<3>>

\* addBytesToList with the range cut at the last full chunk.
addBytesToList_FullChunksOnly(bytes) ==
    LET length == max_send_msg_length
        n == Len(bytes) \div length
    IN  [k \in 1..n |-> Slice(bytes, (k - 1) * length, (k - 1) * length + length)]

addBytesToList(bytes) ==
    LET length == max_send_msg_length
        n == (Len(bytes) + length - 1) \div length     \* len(range(0, len, length))
    IN  [k \in 1..n |-> Slice(bytes, (k - 1) * length, (k - 1) * length + length)]

----------------------------------------------------------------------------
\* Python values, as far as resultParser's comparison needs them: indexing a
\* bytes object gives an int, "\x02" is a str of one character.

PyInt(v) == [type |-> "int", v |-> <<v>>]
PyStr(s) == [type |-> "str", v |-> s]
\* == between Python values: an int and a str are never equal.
PyEq(a, b) == a.type = b.type /\ a.v = b.v

RECURSIVE parseLoop(_, _, _)
parseLoop(data, base, res) ==
    IF base < Len(data) /\ PyEq(PyInt(data[base + 1]), PyStr(<<2>>))
    THEN IF Len(data) - base < 5
         THEN [res |-> res, err |-> "struct.error"]   \* struct.unpack("<BBBH", short)
         ELSE LET payload_length == data[base + 4] + 256 * data[base + 5]
                  info == [command        |-> data[base + 2],
                           payload_length |-> payload_length,
                           payload        |-> Slice(data, base + 5, base + 5 + payload_length),
                           crc32          |-> Slice(data, base + 5 + payload_length,
                                                    base + 9 + payload_length)]
              IN  parseLoop(data, base + 10 + payload_length, Append(res, info))
    ELSE [res |-> res, err |-> "none"]

resultParser(data) == parseLoop(data, 0, <<>>)

----------------------------------------------------------------------------
\* _pack_block and binimage2bitstream.  A bit string is a sequence of the
\* characters "0" and "1"; an image is a sequence of rows of pixels.

\* int(i, 2) for a string of binary digits.
RECURSIVE int2(_)
int2(i) ==
    IF i = <<>> THEN 0
    ELSE 2 * int2(SubSeq(i, 1, Len(i) - 1)) + (IF i[Len(i)] = "1" THEN 1 ELSE 0)

_pack_block(bits_str) ==
    IF Len(bits_str) % 8 # 0
    THEN [err |-> "ValueError", ret |-> <<>>]
    ELSE [err |-> "none",
          ret |-> [k \in 1..(Len(bits_str) \div 8) |->
                      int2(SubSeq(bits_str, 8 * (k - 1) + 1, 8 * k))]]

\* bin_image.size and bin_image.flatten() (row-major).
size(bin_image) == IF bin_image = <<>> THEN 0 ELSE Len(bin_image) * Len(bin_image[1])
flatten(bin_image) ==
    [p \in 1..size(bin_image) |->
        bin_image[((p - 1) \div Len(bin_image[1])) + 1][((p - 1) % Len(bin_image[1])) + 1]]

\* str() of a pixel that passed the assertion.
str(x) == IF x = 0 THEN "0" ELSE "1"

\* binimage2bitstream: max() and min() of an array without elements raise
\* ValueError; the assertion rejects values outside 0..1.
binimage2bitstream(bin_image) ==
    IF size(bin_image) = 0
    THEN [err |-> "ValueError", ret |-> <<>>]
    ELSE IF \E p \in 1..size(bin_image) : flatten(bin_image)[p] \notin {0, 1}
    THEN [err |-> "AssertionError", ret |-> <<>>]
    ELSE _pack_block([p \in 1..size(bin_image) |-> str(flatten(bin_image)[p])])

----------------------------------------------------------------------------

\* class BtCommandByte: its namespace, dir() and findCommand.

\* The attributes the class body assigns, with their Python values (source
\* order).
BtCommandByte ==
    "findCommand" :> [type |-> "staticmethod", v |-> "findCommand"] @@
    "__fmversion__" :> PyStr("1.2.7") @@
    "PRT_PRINT_DATA" :> PyInt(0) @@
    "PRT_PRINT_DATA_COMPRESS" :> PyInt(1) @@
    "PRT_FIRMWARE_DATA" :> PyInt(2) @@
    "PRT_USB_UPDATE_FIRMWARE" :> PyInt(3) @@
    "PRT_GET_VERSION" :> PyInt(4) @@
    "PRT_SENT_VERSION" :> PyInt(5) @@
    "PRT_GET_MODEL" :> PyInt(6) @@
    "PRT_SENT_MODEL" :> PyInt(7) @@
    "PRT_GET_BT_MAC" :> PyInt(8) @@
    "PRT_SENT_BT_MAC" :> PyInt(9) @@
    "PRT_GET_SN" :> PyInt(10) @@
    "PRT_SENT_SN" :> PyInt(11) @@
    "PRT_GET_STATUS" :> PyInt(12) @@
    "PRT_SENT_STATUS" :> PyInt(13) @@
    "PRT_GET_VOLTAGE" :> PyInt(14) @@
    "PRT_SENT_VOLTAGE" :> PyInt(15) @@
    "PRT_GET_BAT_STATUS" :> PyInt(16) @@
    "PRT_SENT_BAT_STATUS" :> PyInt(17) @@
    "PRT_GET_TEMP" :> PyInt(18) @@
    "PRT_SENT_TEMP" :> PyInt(19) @@
    "PRT_SET_FACTORY_STATUS" :> PyInt(20) @@
    "PRT_GET_FACTORY_STATUS" :> PyInt(21) @@
    "PRT_SENT_FACTORY_STATUS" :> PyInt(22) @@
    "PRT_SENT_BT_STATUS" :> PyInt(23) @@
    "PRT_SET_CRC_KEY" :> PyInt(24) @@
    "PRT_SET_HEAT_DENSITY" :> PyInt(25) @@
    "PRT_FEED_LINE" :> PyInt(26) @@
    "PRT_PRINT_TEST_PAGE" :> PyInt(27) @@
    "PRT_GET_HEAT_DENSITY" :> PyInt(28) @@
    "PRT_SENT_HEAT_DENSITY" :> PyInt(29) @@
    "PRT_SET_POWER_DOWN_TIME" :> PyInt(30) @@
    "PRT_GET_POWER_DOWN_TIME" :> PyInt(31) @@
    "PRT_SENT_POWER_DOWN_TIME" :> PyInt(32) @@
    "PRT_FEED_TO_HEAD_LINE" :> PyInt(33) @@
    "PRT_PRINT_DEFAULT_PARA" :> PyInt(34) @@
    "PRT_GET_BOARD_VERSION" :> PyInt(35) @@
    "PRT_SENT_BOARD_VERSION" :> PyInt(36) @@
    "PRT_GET_HW_INFO" :> PyInt(37) @@
    "PRT_SENT_HW_INFO" :> PyInt(38) @@
    "PRT_SET_MAX_GAP_LENGTH" :> PyInt(39) @@
    "PRT_GET_MAX_GAP_LENGTH" :> PyInt(40) @@
    "PRT_SENT_MAX_GAP_LENGTH" :> PyInt(41) @@
    "PRT_GET_PAPER_TYPE" :> PyInt(42) @@
    "PRT_SENT_PAPER_TYPE" :> PyInt(43) @@
    "PRT_SET_PAPER_TYPE" :> PyInt(44) @@
    "PRT_GET_COUNTRY_NAME" :> PyInt(45) @@
    "PRT_SENT_COUNTRY_NAME" :> PyInt(46) @@
    "PRT_DISCONNECT_BT_CMD" :> PyInt(47) @@
    "PRT_MAX_CMD" :> PyInt(48)

\* dir(BtCommandByte) as far as the class body defines it: names in sorted
\* order (upper case before underscore before lower case).  The names
\* inherited from object all start with two underscores.
dir_BtCommandByte ==
    <<
      "PRT_DISCONNECT_BT_CMD", "PRT_FEED_LINE", "PRT_FEED_TO_HEAD_LINE",
      "PRT_FIRMWARE_DATA", "PRT_GET_BAT_STATUS", "PRT_GET_BOARD_VERSION",
      "PRT_GET_BT_MAC", "PRT_GET_COUNTRY_NAME", "PRT_GET_FACTORY_STATUS",
      "PRT_GET_HEAT_DENSITY", "PRT_GET_HW_INFO", "PRT_GET_MAX_GAP_LENGTH",
      "PRT_GET_MODEL", "PRT_GET_PAPER_TYPE", "PRT_GET_POWER_DOWN_TIME",
      "PRT_GET_SN", "PRT_GET_STATUS", "PRT_GET_TEMP",
      "PRT_GET_VERSION", "PRT_GET_VOLTAGE", "PRT_MAX_CMD",
      "PRT_PRINT_DATA", "PRT_PRINT_DATA_COMPRESS", "PRT_PRINT_DEFAULT_PARA",
      "PRT_PRINT_TEST_PAGE", "PRT_SENT_BAT_STATUS", "PRT_SENT_BOARD_VERSION",
      "PRT_SENT_BT_MAC", "PRT_SENT_BT_STATUS", "PRT_SENT_COUNTRY_NAME",
      "PRT_SENT_FACTORY_STATUS", "PRT_SENT_HEAT_DENSITY", "PRT_SENT_HW_INFO",
      "PRT_SENT_MAX_GAP_LENGTH", "PRT_SENT_MODEL", "PRT_SENT_PAPER_TYPE",
      "PRT_SENT_POWER_DOWN_TIME", "PRT_SENT_SN", "PRT_SENT_STATUS",
      "PRT_SENT_TEMP", "PRT_SENT_VERSION", "PRT_SENT_VOLTAGE",
      "PRT_SET_CRC_KEY", "PRT_SET_FACTORY_STATUS", "PRT_SET_HEAT_DENSITY",
      "PRT_SET_MAX_GAP_LENGTH", "PRT_SET_PAPER_TYPE", "PRT_SET_POWER_DOWN_TIME",
      "PRT_USB_UPDATE_FIRMWARE", "__fmversion__", "findCommand"
    >>

\* x.startswith("__") for the names of dir_BtCommandByte.
startswith__(x) == x \in {"__fmversion__"}

\* findCommand taking the c-th name of dir() for code c.
findCommand_ByPosition(c) ==
    IF c + 1 \in 1..49 THEN dir_BtCommandByte[c + 1] ELSE "NO_MATCH_COMMAND"

\* findCommand(c): the first name of dir() that does not start with "__" and
\* whose attribute equals c, or the sentinel.
findCommand(c) ==
    LET Matches(x) == ~startswith__(x) /\ PyEq(BtCommandByte[x], PyInt(c))
        keys == SelectSeq(dir_BtCommandByte, Matches)
    IN  IF keys # <<>> THEN keys[1] ELSE "NO_MATCH_COMMAND"

----------------------------------------------------------------------------
\* The transport (the RFCOMM socket and the device behind it).

SendEv(frame, ok) == [ev |-> "send", frame |-> frame, ok |-> ok]
RecvEv(ok)        == [ev |-> "recv", frame |-> <<>>, ok |-> ok]

NoFail == 0 - 1
FailAts == {NoFail} \cup 0..MaxFailAt

ActiveKey == IF crckeyset THEN crcKey ELSE standardKey

\* A frame as the device builds it, checksummed under key.
DevFrame(r, key) ==
    <<2, r.cmd, r.seq>> \o packH(Len(r.payload)) \o r.payload
    \o packI(zlib_crc32(r.payload, key)) \o <<3>>

Reply1 == [cmd |-> PRT_SENT_BAT_STATUS, seq |-> 0, payload |-> <<1>>]
Reply2 == [cmd |-> PRT_SENT_STATUS, seq |-> 255, payload |-> <<>>]
Reply3 == [cmd |-> PRT_SET_HEAT_DENSITY, seq |-> 1, payload |-> <<5, 0>>]
Garbage == <<0, 7>>

\* Frames the program itself would produce for these triples (echoed back).
Echo(r) == packPerBytes(r.payload, r.cmd, r.seq)

RecvChoices ==
    {"timeout", "empty", "garbage", "one1", "one2", "one3", "two",
     "oneGarbage", "badcrc", "short", "badend"}

\* What sock.recv returns for each choice of the device's behaviour.
Buffer(rcv) ==
    CASE rcv = "empty"      -> <<>>
      [] rcv = "garbage"    -> Garbage
      [] rcv = "one1"       -> Echo(Reply1)
      [] rcv = "one2"       -> Echo(Reply2)
      [] rcv = "one3"       -> Echo(Reply3)
      [] rcv = "two"        -> Echo(Reply1) \o Echo(Reply3)
      [] rcv = "oneGarbage" -> Echo(Reply1) \o Garbage
      [] rcv = "badcrc"     -> DevFrame(Reply1, Xor32(ActiveKey, W(0, 1)))
      [] rcv = "short"      -> SubSeq(Echo(Reply3), 1, Len(Echo(Reply3)) - 4)
      [] rcv = "badend"     -> SubSeq(Echo(Reply1), 1, Len(Echo(Reply1)) - 1) \o <<0>>
      [] OTHER              -> <<>>

\* self.sock.<method>: the attribute may be missing, the socket may not be
\* connected.
SockErr(sk) ==
    IF sk = "noattr" THEN "AttributeError"
    ELSE IF sk # "open" THEN "OSError"
    ELSE "none"

----------------------------------------------------------------------------
\* recv and sendToBt as functions of the socket state and of the transport's
\* behaviour: failAt is the chunk index at which sock.send raises, rcv what
\* sock.recv does.

recv(sk, rcv) ==
    IF SockErr(sk) # "none"
    THEN [wire |-> <<>>, err |-> SockErr(sk), raw_msg |-> <<>>, parsed |-> <<>>,
          ret |-> "None"]
    ELSE IF rcv = "timeout"
    THEN [wire |-> <<RecvEv(FALSE)>>, err |-> "timeout", raw_msg |-> <<>>,
          parsed |-> <<>>, ret |-> "None"]
    ELSE [wire |-> <<RecvEv(TRUE)>>, err |-> resultParser(Buffer(rcv)).err,
          raw_msg |-> Buffer(rcv), parsed |-> resultParser(Buffer(rcv)).res,
          ret |-> "tuple"]

\* What iteration i of the for loop of sendToBt raises (0-based, as enumerate
\* counts): packPerBytes comes first, then sock.send.
sendErrAt(control_command, i, sk, failAt) ==
    IF packRaises(control_command, i) THEN "struct.error"
    ELSE IF SockErr(sk) # "none" THEN SockErr(sk)
    ELSE IF failAt = i THEN "TransportError"
    ELSE "none"

\* The index at which the loop over n chunks ends: n, or the first iteration
\* that raises.
sendStop(n, control_command, sk, failAt) ==
    CHOOSE i \in {n} \cup {j \in 0..(n - 1) :
                              sendErrAt(control_command, j, sk, failAt) # "none"} :
        \A j \in 0..(i - 1) : sendErrAt(control_command, j, sk, failAt) = "none"

\* The for loop of sendToBt: the frames handed to sock.send, in order, and the
\* exception that ended the loop, if any.  A frame whose send raised is
\* recorded with ok = FALSE.
sendLoop(bytes_list, control_command, sk, failAt) ==
    [wire |->
        [k \in 1..sendStop(Len(bytes_list), control_command, sk, failAt) |->
            SendEv(packPerBytes(bytes_list[k], control_command, k - 1), TRUE)]
        \o [k \in 1..(IF failAt \in 0..(Len(bytes_list) - 1)
                         /\ sendErrAt(control_command, failAt, sk, failAt) = "TransportError"
                         /\ sendStop(Len(bytes_list), control_command, sk, failAt) = failAt
                      THEN 1 ELSE 0) |->
            SendEv(packPerBytes(bytes_list[failAt + 1], control_command, failAt), FALSE)],
     err |->
        IF sendStop(Len(bytes_list), control_command, sk, failAt) = Len(bytes_list)
        THEN "none"
        ELSE sendErrAt(control_command,
                       sendStop(Len(bytes_list), control_command, sk, failAt), sk, failAt)]

\* After the loop: the reply, if one is awaited.
sendReply(sent, bytes_list, need_reply, r) ==
    IF sent.err # "none"
    THEN [wire |-> sent.wire, err |-> sent.err, bytes_list |-> bytes_list,
          raw_msg |-> <<>>, parsed |-> <<>>, ret |-> "None"]
    ELSE IF need_reply
    THEN [wire |-> sent.wire \o r.wire, err |-> r.err, bytes_list |-> bytes_list,
          raw_msg |-> r.raw_msg, parsed |-> r.parsed,
          ret |-> IF r.err = "none" THEN r.ret ELSE "None"]
    ELSE [wire |-> sent.wire, err |-> "none", bytes_list |-> bytes_list,
          raw_msg |-> <<>>, parsed |-> <<>>, ret |-> "None"]

\* The set holding the one outcome of sendToBt(data_bytes, control_command,
\* need_reply) for this behaviour of the transport.
sendToBt(data_bytes, control_command, need_reply, sk, failAt, rcv) ==
    UNION { UNION { { sendReply(sent, bytes_list, need_reply, r) :
                        r \in {recv(sk, rcv)} } :
                    sent \in {sendLoop(bytes_list, control_command, sk, failAt)} } :
            bytes_list \in {addBytesToList(data_bytes)} }

----------------------------------------------------------------------------
\* Inputs.

Platforms == {"Darwin", "Linux"}

Keys == {DefaultKey, W(4660, 22136)}      \* the default and 0x12345678

PayloadOf(n) == [i \in 1..n |-> (7 * i) % 256]
\* More than 256 chunks.
BigLen == 256 * max_send_msg_length + 1
\* sendToBt(data_bytes, control_command, need_reply) as the wrappers call it:
\* short commands that wait for a reply, print data that does not.
SendInputs ==
    {[data |-> PayloadOf(n), cmd |-> PRT_SET_HEAT_DENSITY, need_reply |-> TRUE] :
        n \in {0, 1}}
    \cup {[data |-> PayloadOf(n), cmd |-> PRT_PRINT_DATA, need_reply |-> b] :
            n \in {max_send_msg_length + 1, 2 * max_send_msg_length}, b \in BOOLEAN}
    \cup {[data |-> PayloadOf(BigLen), cmd |-> PRT_PRINT_DATA, need_reply |-> b] :
            b \in BOOLEAN}

\* The device's behaviours tried for the reply of a send.
SendReplies == {"timeout", "one1", "badcrc"}

\* The chunk indices at which sock.send may be made to raise while data_bytes
\* is sent on socket state sk: none when the socket is not open (every use of
\* it raises by itself) and for the payload of more than 256 chunks, else
\* one of the first chunks of the message.
FailAtsFor(sk, data_bytes) ==
    IF sk # "open" \/ Len(data_bytes) > 256 * max_send_msg_length
    THEN {NoFail}
    ELSE {f \in FailAts : f * max_send_msg_length < Len(data_bytes)}
\* The behaviours of the device that matter after that: none when no receive
\* is reached.
RepliesFor(sk, failAt, need_reply) ==
    IF sk = "open" /\ failAt = NoFail /\ need_reply THEN SendReplies ELSE {"none"}

----------------------------------------------------------------------------
\* The state machine.

NoIO == [wire |-> <<>>, err |-> "none", bytes_list |-> <<>>, raw_msg |-> <<>>,
         parsed |-> <<>>, ret |-> "None"]

Call(op, key, data, cmd, need_reply, rcv, io) ==
    [op |-> op, key |-> key, data |-> data, cmd |-> cmd, need_reply |-> need_reply,
     rcv |-> IF \E k \in 1..Len(io.wire) : io.wire[k] = RecvEv(TRUE) THEN rcv ELSE "none",
     err |-> io.err, bytes_list |-> io.bytes_list,
     raw_msg |-> io.raw_msg, parsed |-> io.parsed, ret |-> io.ret]

\* The command byte of the first frame handed to the socket.
FirstCmd(first0, trace) ==
    IF first0 # NoCmd THEN first0
    ELSE IF \A k \in 1..Len(trace) : trace[k].ev # "send" THEN NoCmd
    ELSE trace[CHOOSE k \in 1..Len(trace) :
                  /\ trace[k].ev = "send"
                  /\ \A j \in 1..(k - 1) : trace[j].ev # "send"].frame[2]

Init ==
    /\ obj = "none"
    /\ address = "None"
    /\ crckeyset = FALSE
    /\ crcKey = NoKey
    /\ connected = "unset"
    /\ sock = "noattr"
    /\ service = "noattr"
    /\ firstCmd = NoCmd
    /\ call = Call("none", NoKey, <<>>, NoCmd, FALSE, "none", NoIO)
    /\ wire = <<>>

\* registerCrcKeyToBt with the key assigned as soon as the set-key frame has
\* been sent, before the reply.
registerCrcKeyToBt_KeyBeforeReply(op, key, sk, first0, okRet) ==
    \E failAt \in FailAtsFor(sk, packI(Xor32(key, standardKey))) :
     \E rcv \in RepliesFor(sk, failAt, TRUE) :
      \E r \in sendToBt(packI(Xor32(key, standardKey)), PRT_SET_CRC_KEY, TRUE,
                        sk, failAt, rcv) :
        /\ crcKey' = IF \E k \in 1..Len(r.wire) : r.wire[k].ev = "send" /\ r.wire[k].ok
                     THEN key ELSE crcKey
        /\ crckeyset' = IF \E k \in 1..Len(r.wire) : r.wire[k].ev = "send" /\ r.wire[k].ok
                        THEN TRUE ELSE crckeyset
        /\ wire' = r.wire
        /\ firstCmd' = FirstCmd(first0, r.wire)
        /\ call' = Call(op, key, packI(Xor32(key, standardKey)), PRT_SET_CRC_KEY, TRUE, rcv,
                        [r EXCEPT !.ret = IF r.err = "none" THEN okRet ELSE "None"])

\* registerCrcKeyToBt(key), called as method op on socket state sk: the
\* set-key message goes through sendToBt, and only when that returns are
\* crcKey and crckeyset assigned.  okRet is what op returns on success.
registerCrcKeyToBt(op, key, sk, first0, okRet) ==
    \E failAt \in FailAtsFor(sk, packI(Xor32(key, standardKey))) :
     \E rcv \in RepliesFor(sk, failAt, TRUE) :
      \E r \in sendToBt(packI(Xor32(key, standardKey)), PRT_SET_CRC_KEY, TRUE,
                        sk, failAt, rcv) :
        /\ crcKey' = IF r.err = "none" THEN key ELSE crcKey
        /\ crckeyset' = IF r.err = "none" THEN TRUE ELSE crckeyset
        /\ wire' = r.wire
        /\ firstCmd' = FirstCmd(first0, r.wire)
        /\ call' = Call(op, key, packI(Xor32(key, standardKey)), PRT_SET_CRC_KEY, TRUE, rcv,
                        [r EXCEPT !.ret = IF r.err = "none" THEN okRet ELSE "None"])

\* connect() ending before it touches the socket: by return False (ret) or by
\* an exception (err); addr1 is self.address by then.
connectEnds(op, addr1, err, ret) ==
    /\ address' = addr1
    /\ wire' = <<>>
    /\ call' = Call(op, NoKey, <<>>, NoCmd, FALSE, "none",
                    [NoIO EXCEPT !.err = err, !.ret = ret])
    /\ UNCHANGED <<service, sock, crcKey, crckeyset, firstCmd>>

\* connect() from scanservices() on, with self.address known: nsvc is the
\* number of valid services found, platform what system() returns, connOK
\* whether sock.connect succeeds.
connectService(op) ==
    \E nsvc \in 0..MaxServices :
        IF nsvc = 0
        THEN \E platform \in Platforms :
                IF platform = "Darwin"
                THEN connectEnds(op, "addr", "none", "False")
                ELSE connectEnds(op, "addr", "IndexError", "None")   \* valid_service[0]
        ELSE /\ address' = "addr"
             /\ service' = "set"
             /\ \E connOK \in BOOLEAN :
                IF ~connOK
                THEN /\ sock' = "unconnected"
                     /\ firstCmd' = NoCmd
                     /\ wire' = <<>>
                     /\ call' = Call(op, NoKey, <<>>, NoCmd, FALSE, "none",
                                     [NoIO EXCEPT !.err = "OSError"])
                     /\ UNCHANGED <<crcKey, crckeyset>>
                ELSE /\ sock' = "open"
                     /\ registerCrcKeyToBt(op, DefaultKey, "open", NoCmd, "True")

\* connect(), called as method op with self.address = addr0: discovery (of
\* ndev valid devices, when no address is known), a new socket, key
\* negotiation.
connect(op, addr0) ==
    IF addr0 = "None"
    THEN \E ndev \in 0..MaxDevices :
            IF ndev = 0
            THEN connectEnds(op, addr0, "none", "False")
            ELSE IF ndev > 1
            THEN connectEnds(op, addr0, "TypeError", "None")   \* "\n".join(list of tuples)
            ELSE connectService(op)
    ELSE connectService(op)

\* Paperang(address): __init__ with the connect() it runs.  An exception
\* leaves no object behind.
Construct ==
    /\ obj = "none"
    /\ \E a \in {"None", "addr"} : connect("__init__", a)
    /\ obj' = IF call'.err = "none" THEN "live" ELSE "dead"
    /\ connected' = IF call'.err = "none" THEN call'.ret ELSE "unset"

\* connect() called again on the object.
Connect ==
    /\ obj = "live"
    /\ connect("connect", address)
    /\ UNCHANGED <<obj, connected>>

\* disconnect() that also forgets the negotiated key.
Disconnect_ForgetsKey ==
    /\ obj = "live"
    /\ sock' = IF sock = "noattr" THEN "noattr" ELSE "closed"
    /\ crckeyset' = FALSE
    /\ call' = Call("disconnect", NoKey, <<>>, NoCmd, FALSE, "none", NoIO)
    /\ wire' = <<>>
    /\ UNCHANGED <<obj, address, crcKey, connected, service, firstCmd>>

\* disconnect(): sock.close() with every exception swallowed.
Disconnect ==
    /\ obj = "live"
    /\ sock' = IF sock = "noattr" THEN "noattr" ELSE "closed"
    /\ call' = Call("disconnect", NoKey, <<>>, NoCmd, FALSE, "none", NoIO)
    /\ wire' = <<>>
    /\ UNCHANGED <<obj, address, crckeyset, crcKey, connected, service, firstCmd>>

RegisterCrcKeyToBt ==
    /\ obj = "live"
    /\ \E key \in Keys : registerCrcKeyToBt("registerCrcKeyToBt", key, sock, firstCmd, "None")
    /\ UNCHANGED <<obj, address, connected, sock, service>>

SendToBt ==
    /\ obj = "live"
    /\ \E in \in SendInputs :
       \E failAt \in FailAtsFor(sock, in.data) :
       \E rcv \in RepliesFor(sock, failAt, in.need_reply) :
        \E r \in sendToBt(in.data, in.cmd, in.need_reply, sock, failAt, rcv) :
            /\ wire' = r.wire
            /\ firstCmd' = FirstCmd(firstCmd, r.wire)
            /\ call' = Call("sendToBt", NoKey, in.data, in.cmd, in.need_reply, rcv, r)
    /\ UNCHANGED <<obj, address, crckeyset, crcKey, connected, sock, service>>

\* Densities passed to sendDensityToBt: two that fit a byte and one that does
\* not.
Densities == {5, 255, 256}

\* sendDensityToBt(density): struct.pack("<B", density), then sendToBt with
\* PRT_SET_HEAT_DENSITY awaiting a reply.
SendDensityToBt ==
    /\ obj = "live"
    /\ \E density \in Densities :
        IF ~CanPackB(density)
        THEN /\ wire' = <<>>
             /\ firstCmd' = firstCmd
             /\ call' = Call("sendDensityToBt", NoKey, <<>>, NoCmd, FALSE, "none",
                             [NoIO EXCEPT !.err = "struct.error"])   \* sendToBt not reached
        ELSE \E failAt \in FailAtsFor(sock, <<density>>) :
             \E rcv \in RepliesFor(sock, failAt, TRUE) :
             \E r \in sendToBt(<<density>>, PRT_SET_HEAT_DENSITY, TRUE, sock, failAt, rcv) :
                /\ wire' = r.wire
                /\ firstCmd' = FirstCmd(firstCmd, r.wire)
                /\ call' = Call("sendDensityToBt", NoKey, <<density>>,
                                PRT_SET_HEAT_DENSITY, TRUE, rcv, r)
    /\ UNCHANGED <<obj, address, crckeyset, crcKey, connected, sock, service>>

\* sendPaperTypeToBt() with its default paperType, and sendFeedLineToBt(length):
\* the sets holding their one outcome.
sendPaperTypeToBt(sk, failAt, rcv) ==
    sendToBt(<<0>>, PRT_SET_PAPER_TYPE, TRUE, sk, failAt, rcv)

sendFeedLineToBt(length, sk, failAt, rcv) ==
    sendToBt(packH(length), PRT_FEED_LINE, TRUE, sk, failAt, rcv)

\* The images passed to sendImageToBt: one chunk, three chunks with a short
\* last one, more than 256 chunks.
ImageInputs == {PayloadOf(n) : n \in {1, 2 * max_send_msg_length + 1, BigLen}}

\* msg of sendImageToBt: each byte x of binary_img packed by itself as "<c".
ImageMsg(binary_img) == [k \in 1..Len(binary_img) |-> <<binary_img[k]>>[1]]

\* sendImageToBt ending in its step-th sendToBt, whose arguments and outcome
\* the call record keeps; trace is what the whole call put on the wire.
ImageEnds(binary_img, step, data, cmd, need_reply, rcv, trace, r) ==
    /\ wire' = trace
    /\ firstCmd' = FirstCmd(firstCmd, trace)
    /\ call' = [op |-> "sendImageToBt", key |-> NoKey, data |-> data, cmd |-> cmd,
                need_reply |-> need_reply,
                rcv |-> IF r.wire # <<>> /\ r.wire[Len(r.wire)] = RecvEv(TRUE)
                        THEN rcv ELSE "none",
                err |-> r.err, bytes_list |-> r.bytes_list, raw_msg |-> r.raw_msg,
                parsed |-> r.parsed, ret |-> "None",
                image |-> binary_img, step |-> step]

\* sendImageToBt(binary_img): the paper type, the print data without reply,
\* the feed of padding_line; an exception in one step ends the call.
SendImageToBt ==
    /\ obj = "live"
    /\ \E binary_img \in ImageInputs :
       \E f1 \in FailAtsFor(sock, <<0>>) :
       \E rcv1 \in RepliesFor(sock, f1, TRUE) \ {"badcrc"} :   \* replies are not compared
        \E r1 \in sendPaperTypeToBt(sock, f1, rcv1) :
          IF r1.err # "none"
          THEN ImageEnds(binary_img, 1, <<0>>, PRT_SET_PAPER_TYPE, TRUE, rcv1, r1.wire, r1)
          ELSE \E f2 \in FailAtsFor(sock, ImageMsg(binary_img)) :
                \E r2 \in sendToBt(ImageMsg(binary_img), PRT_PRINT_DATA, FALSE,
                                   sock, f2, "none") :
                  IF r2.err # "none"
                  THEN ImageEnds(binary_img, 2, ImageMsg(binary_img), PRT_PRINT_DATA,
                                 FALSE, "none", r1.wire \o r2.wire, r2)
                  ELSE \E f3 \in FailAtsFor(sock, packH(padding_line)) :
                       \E rcv3 \in RepliesFor(sock, f3, TRUE) :
                        \E r3 \in sendFeedLineToBt(padding_line, sock, f3, rcv3) :
                            ImageEnds(binary_img, 3, packH(padding_line), PRT_FEED_LINE,
                                      TRUE, rcv3, r1.wire \o r2.wire \o r3.wire, r3)
    /\ UNCHANGED <<obj, address, crckeyset, crcKey, connected, sock, service>>

Recv ==
    /\ obj = "live"
    /\ \E rcv \in RecvChoices :
        \E r \in {recv(sock, rcv)} :
            /\ wire' = r.wire
            /\ call' = Call("recv", NoKey, <<>>, NoCmd, FALSE, rcv,
                            [wire |-> r.wire, err |-> r.err, bytes_list |-> <<>>,
                             raw_msg |-> r.raw_msg, parsed |-> r.parsed,
                             ret |-> IF r.err = "none" THEN r.ret ELSE "None"])
    /\ UNCHANGED <<obj, address, crckeyset, crcKey, connected, sock, service, firstCmd>>

Next ==
    \/ Construct
    \/ Connect
    \/ Disconnect
    \/ RegisterCrcKeyToBt
    \/ SendToBt
    \/ SendDensityToBt
    \/ SendImageToBt
    \/ Recv

Spec == Init /\ [][Next]_vars

----------------------------------------------------------------------------
\* The functions that need no session: binimage2bitstream and
\* BtCommandByte.findCommand, applied to inputs from bounded sets.

PureCall(op, arg, err, ret) == [op |-> op, arg |-> arg, err |-> err, ret |-> ret]

\* All 0/1 images of r rows and c columns.
Pixels(r, c) == [1..r -> [1..c -> {0, 1}]]
\* The print width of the device.
PrintWidth == 384
BinImages ==
    Pixels(1, 8) \cup Pixels(2, 4) \cup Pixels(1, 3) \cup Pixels(3, 3)
    \cup {<<[p \in 1..PrintWidth |-> 0]>>}
    \cup {<< <<1, 0, 1, 0, 1, 0, 1, 0>>, <<0, 0, 0, 0, 1, 1, 1, 1>> >>}
    \cup {<<>>, << <<0, 1, 2, 0, 0, 0, 0, 0>> >>}

\* A byte read from a frame, as Info.__str__ passes it.
CommandBytes == 0..255

\* A call not yet made: its argument is chosen, its outcome pending.
Pending(op, arg) == PureCall(op, arg, "pending", <<>>)

InitPure ==
    /\ obj = "none"
    /\ address = "None"
    /\ crckeyset = FALSE
    /\ crcKey = NoKey
    /\ connected = "unset"
    /\ sock = "noattr"
    /\ service = "noattr"
    /\ firstCmd = NoCmd
    /\ wire = <<>>
    /\ call \in {Pending("binimage2bitstream", bin_image) : bin_image \in BinImages}
                \cup {Pending("findCommand", c) : c \in CommandBytes}

Binimage2bitstream ==
    /\ call.op = "binimage2bitstream"
    /\ call.err = "pending"
    /\ \E r \in {binimage2bitstream(call.arg)} :
          call' = PureCall("binimage2bitstream", call.arg, r.err, r.ret)
    /\ UNCHANGED <<obj, address, crckeyset, crcKey, connected, sock, service, firstCmd, wire>>

FindCommand ==
    /\ call.op = "findCommand"
    /\ call.err = "pending"
    /\ call' = PureCall("findCommand", call.arg, "none", findCommand(call.arg))
    /\ UNCHANGED <<obj, address, crckeyset, crcKey, connected, sock, service, firstCmd, wire>>

NextPure ==
    \/ Binimage2bitstream
    \/ FindCommand

SpecPure == InitPure /\ [][NextPure]_vars

----------------------------------------------------------------------------
\* Reading frames and traces.

IsSend(e) == e.ev = "send"
\* The frames handed to sock.send during the most recent call, in order.
Handed == SelectSeq(wire, IsSend)
IsSent(e) == e.ev = "send" /\ e.ok
\* Those of them that sock.send accepted.
Transmitted == SelectSeq(wire, IsSent)

FrameCmd(f) == f[2]
FrameSeq(f) == f[3]
FrameLen(f) == f[4] + 256 * f[5]
FramePayload(f) == SubSeq(f, 6, 5 + FrameLen(f))
FrameCrc(f) == SubSeq(f, 6 + FrameLen(f), 9 + FrameLen(f))

\* Concatenation of chunks lo..hi of a list.
RECURSIVE ConcatRange(_, _, _)
ConcatRange(chunks, lo, hi) ==
    IF lo > hi THEN <<>>
    ELSE IF lo = hi THEN chunks[lo]
    ELSE ConcatRange(chunks, lo, (lo + hi) \div 2)
         \o ConcatRange(chunks, (lo + hi) \div 2 + 1, hi)
Concat(chunks) == ConcatRange(chunks, 1, Len(chunks))

Negotiating == call.op \in {"__init__", "connect", "registerCrcKeyToBt"}

----------------------------------------------------------------------------
\* C1: key negotiation precedes every other command: the first frame handed to
\* a socket is the SET_CRC_KEY frame, and no frame of another command is
\* transmitted while crckeyset is false (a command issued in that state sends
\* nothing).
C1_NegotiationFirst ==
    /\ firstCmd \in {NoCmd, PRT_SET_CRC_KEY}
    /\ (obj = "live" /\ call.op = "sendToBt" /\ ~crckeyset) => Transmitted = <<>>

\* C2: once negotiated, the active key never changes again and never reverts.
C2_KeySetOnce ==
    [][crckeyset => (crckeyset' /\ crcKey' = crcKey)]_vars

\* C3: every SET_CRC_KEY frame of a negotiation with key K carries K XOR
\* standardKey as 4 little-endian bytes and a checksum under the standard key;
\* every frame transmitted once negotiated carries a checksum under the
\* active key.
C3_SetKeyFrame ==
    \A k \in 1..Len(Handed) :
        LET f == Handed[k].frame
        IN  IF Negotiating
            THEN /\ FrameCmd(f) = PRT_SET_CRC_KEY
                 /\ FramePayload(f) = packI(Xor32(call.key, standardKey))
                 /\ FrameCrc(f) = packI(zlib_crc32(FramePayload(f), standardKey))
            ELSE crckeyset => FrameCrc(f) = packI(zlib_crc32(FramePayload(f), crcKey))

\* C4: when a negotiation call has ended after its set-key frame was
\* transmitted, the session is Negotiated with the key of that call, whether
\* or not the reply arrived.
C4_NegotiatedAfterSend ==
    (obj = "live" /\ Negotiating /\ Transmitted # <<>>)
        => (crckeyset /\ crcKey = call.key)

\* C5: two back-to-back valid frames parse to two records in buffer order, a
\* buffer not starting with 0x02 to none, a valid frame followed by garbage
\* to one.
C5_DemuxBoundary ==
    /\ call.rcv = "two" =>
          /\ Len(call.parsed) = 2
          /\ call.parsed[1].command = Reply1.cmd
          /\ call.parsed[1].payload = Reply1.payload
          /\ call.parsed[2].command = Reply3.cmd
          /\ call.parsed[2].payload = Reply3.payload
    /\ call.rcv = "garbage" => call.parsed = <<>>
    /\ call.rcv = "oneGarbage" =>
          /\ Len(call.parsed) = 1
          /\ call.parsed[1].command = Reply1.cmd
          /\ call.parsed[1].payload = Reply1.payload

\* C6: a received frame whose checksum field differs from the checksum of its
\* payload under the active key is not returned as a decoded frame: the
\* receive fails with ChecksumMismatch.
C6_ChecksumValidated ==
    (/\ call.op \in {"recv", "sendToBt"}
     /\ Len(call.raw_msg) >= 10
     /\ call.raw_msg[1] = 2
     /\ Len(call.raw_msg) = 10 + FrameLen(call.raw_msg)
     /\ FrameCrc(call.raw_msg) # packI(zlib_crc32(FramePayload(call.raw_msg), ActiveKey)))
        => (call.err = "ChecksumMismatch" /\ call.parsed = <<>>)

\* C7: parsing the frame packPerBytes builds for (payload, command, sequence)
\* under the same key gives exactly one record with that command, sequence,
\* payload and checksum, and no error.
C7_RoundTrip ==
    \A r \in {Reply1, Reply2, Reply3} :
        (/\ call.op \in {"recv", "sendToBt"}
         /\ call.rcv # "none"
         /\ call.raw_msg = packPerBytes(r.payload, r.cmd, r.seq))
            => /\ call.err = "none"
               /\ Len(call.parsed) = 1
               /\ call.parsed[1].command = r.cmd
               /\ call.parsed[1].sequence = r.seq
               /\ call.parsed[1].payload = r.payload
               /\ call.parsed[1].crc32 = crc32(r.payload)

\* C8: an empty payload is split into one empty chunk, and sendToBt with an
\* empty payload (on a negotiated session whose transport does not fail)
\* transmits exactly one frame, with sequence 0 and length 0.
C8_EmptyPayloadOneFrame ==
    (call.op = "sendToBt" /\ crckeyset /\ call.data = <<>>) =>
        /\ call.bytes_list = << <<>> >>
        /\ sock = "open" /\ (\A k \in 1..Len(Handed) : Handed[k].ok) =>
              /\ Len(Transmitted) = 1
              /\ FrameSeq(Transmitted[1].frame) = 0
              /\ FrameLen(Transmitted[1].frame) = 0

\* C9: on a negotiated session whose transport does not fail, sendToBt
\* transmits one frame per chunk, in
\* payload order, the i-th (from 0) with sequence byte i mod 256, also beyond
\* 256 chunks.
C9_SequenceWraps ==
    (/\ call.op = "sendToBt"
     /\ crckeyset
     /\ sock = "open"
     /\ \A k \in 1..Len(Handed) : Handed[k].ok)
        => /\ call.err # "struct.error"
           /\ Len(Transmitted) = Len(call.bytes_list)
           /\ \A k \in 1..Len(Transmitted) :
                 /\ FrameSeq(Transmitted[k].frame) = (k - 1) % 256
                 /\ FramePayload(Transmitted[k].frame) = call.bytes_list[k]

\* C10: the chunks of addBytesToList concatenate to the payload, each is at
\* most max_send_msg_length long, and each but the last is exactly that long.
C10_ChunkConcat ==
    /\ Concat(call.bytes_list) = call.data
    /\ \A k \in 1..Len(call.bytes_list) :
          /\ Len(call.bytes_list[k]) <= max_send_msg_length
          /\ k < Len(call.bytes_list) => Len(call.bytes_list[k]) = max_send_msg_length

\* A payload that needs a short final chunk has been split.
C10_Witness ==
    /\ call.op = "sendToBt"
    /\ Len(call.bytes_list) = 2
    /\ Len(call.bytes_list[2]) < max_send_msg_length
    /\ Len(call.data) = max_send_msg_length + Len(call.bytes_list[2])

\* Calls that run sendToBt at most once.
OneSendToBt ==
    call.op \in {"sendToBt", "sendDensityToBt", "registerCrcKeyToBt", "connect", "__init__"}

\* The order alone: a receive is the last event of a call, occurs only when a
\* reply is awaited and only after every chunk frame of the call has been
\* sent; each chunk is handed to the socket at most once, in order.
C11_ReceiveOrder ==
    OneSendToBt =>
        /\ \A k \in 1..Len(wire) :
              wire[k].ev = "recv" =>
                  /\ call.need_reply
                  /\ k = Len(wire)
                  /\ k = Len(call.bytes_list) + 1
                  /\ \A j \in 1..(k - 1) : IsSent(wire[j])
        /\ Len(Handed) <= Len(call.bytes_list)
        /\ \A k \in 1..Len(Handed) :
              /\ FrameSeq(Handed[k].frame) = k - 1
              /\ FramePayload(Handed[k].frame) = call.bytes_list[k]

\* C11: a call of sendToBt that awaits a reply performs exactly one receive
\* (on an open socket that accepts every frame handed to it), after every
\* chunk frame of the call has been sent; a call that awaits none performs no
\* receive; no send or receive is retried.
C11_OneReceiveAfterChunks ==
    /\ C11_ReceiveOrder
    /\ (/\ OneSendToBt
        /\ call.need_reply
        /\ sock = "open"
        /\ \A k \in 1..Len(Handed) : Handed[k].ok)
          => /\ Len(wire) = Len(call.bytes_list) + 1
             /\ wire[Len(wire)].ev = "recv"

\* C12: a receive that times out during a command leaves crckeyset and crcKey
\* as they were when the command started.
C12_FailedReceiveKeepsKey ==
    [][(Len(wire') > 0 /\ wire'[Len(wire')] = RecvEv(FALSE))
          => (crckeyset' = crckeyset /\ crcKey' = crcKey)]_vars

\* On a negotiated session a negotiation of another key has timed out.
C12_Witness ==
    /\ call.op = "registerCrcKeyToBt"
    /\ call.err = "timeout"
    /\ wire # <<>>
    /\ wire[Len(wire)] = RecvEv(FALSE)
    /\ crckeyset
    /\ crcKey # call.key

\* The wire layout of a frame, written out byte by byte: f is the frame of
\* (cmd, seq, payload) checksummed under key.
Layout(f, cmd, seq, payload, key) ==
    \E w \in {zlib_crc32(payload, key)} :
        f = <<2, cmd, seq, Len(payload) % 256, Len(payload) \div 256>>
            \o payload
            \o <<w.lo % 256, w.lo \div 256, w.hi % 256, w.hi \div 256>>
            \o <<3>>

\* The checksum bytes of payload 05 under the three keys of the model.
DensityCrc(key) ==
    IF key = standardKey THEN <<201, 125, 52, 238>>
    ELSE IF key = DefaultKey THEN <<189, 74, 217, 176>>
    ELSE <<90, 214, 164, 252>>

\* C13: every frame handed to the socket is 02, command, sequence, payload
\* length as 2 little-endian bytes, the payload, the CRC-32 of the payload
\* under the key active when the call started as 4 little-endian bytes, 03,
\* with the declared length equal to the payload length; it carries the
\* command and the chunk of the call; sendDensityToBt(5) hands over
\* 02 19 00 01 00 05 <crc> 03.
C13_WireLayout ==
    [][/\ \A k \in 1..Len(wire') :
            wire'[k].ev = "send" =>
                /\ FrameLen(wire'[k].frame) = Len(wire'[k].frame) - 10
                /\ IF OneSendToBt'
                   THEN Layout(wire'[k].frame, call'.cmd, k - 1, call'.bytes_list[k],
                               ActiveKey)
                   ELSE Layout(wire'[k].frame, FrameCmd(wire'[k].frame),
                               FrameSeq(wire'[k].frame), FramePayload(wire'[k].frame),
                               ActiveKey)
       /\ (call'.op = "sendDensityToBt" /\ call'.data = <<5>> /\ wire' # <<>>)
             => wire'[1].frame = <<2, 25, 0, 1, 0, 5>> \o DensityCrc(ActiveKey) \o <<3>>
      ]_vars

\* sendDensityToBt(5) has put its frame on the wire of a negotiated session.
C13_Witness ==
    /\ call.op = "sendDensityToBt"
    /\ call.data = <<5>>
    /\ crckeyset
    /\ Len(Transmitted) = 1
    /\ Transmitted[1].frame[6] = 5

\* C14: decoding a buffer that starts with 0x02 but is shorter than its
\* declared length requires, or whose end marker is not 0x03, fails with
\* MalformedFrame and returns no decoded frame.
C14_MalformedFrameRejected ==
    (/\ call.op = "recv"
     /\ call.rcv \in {"short", "badend"}
     /\ call.raw_msg[1] = 2
     /\ \/ Len(call.raw_msg) < 10 + FrameLen(call.raw_msg)
        \/ call.raw_msg[Len(call.raw_msg)] # 3)
        => (call.err = "MalformedFrame" /\ call.parsed = <<>>)

\* Pixel p (from 1, row-major) of the image of the most recent call.
PixelAt(p) ==
    call.arg[((p - 1) \div Len(call.arg[1])) + 1][((p - 1) % Len(call.arg[1])) + 1]
PixelCount == IF call.arg = <<>> THEN 0 ELSE Len(call.arg) * Len(call.arg[1])

\* C15: for every 0/1 image whose pixel count is a multiple of 8
\* binimage2bitstream returns pixel count / 8 bytes, each packing 8 consecutive
\* row-major pixels with the first as the most significant bit; for any other
\* pixel count it fails and returns no bytes.
C15_BitmapPacking ==
    (/\ call.op = "binimage2bitstream"
     /\ call.err # "pending"
     /\ \A p \in 1..PixelCount : PixelAt(p) \in {0, 1})
        => IF PixelCount % 8 = 0
           THEN /\ call.err = "none"
                /\ Len(call.ret) = PixelCount \div 8
                /\ \A k \in 1..Len(call.ret) :
                      call.ret[k] = 128 * PixelAt(8 * k - 7) + 64 * PixelAt(8 * k - 6)
                                    + 32 * PixelAt(8 * k - 5) + 16 * PixelAt(8 * k - 4)
                                    + 8 * PixelAt(8 * k - 3) + 4 * PixelAt(8 * k - 2)
                                    + 2 * PixelAt(8 * k - 1) + PixelAt(8 * k)
                /\ call.arg = << <<1, 0, 1, 0, 1, 0, 1, 0>> >> => call.ret = <<170>>
                /\ PixelCount = 384 => call.ret = [k \in 1..48 |-> 0]
           ELSE call.err # "none" /\ call.ret = <<>>

\* The same for images that have at least one pixel.
C15_NonEmptyImages ==
    (call.op = "binimage2bitstream" /\ PixelCount = 0) \/ C15_BitmapPacking

\* C16: the command table maps its 49 names one-to-one onto the codes 0..48;
\* findCommand(code) returns the one name of each code in 0..48 and
\* NO_MATCH_COMMAND for every other byte, without failing.
C16_CommandTable ==
    /\ {x \in DOMAIN BtCommandByte : BtCommandByte[x].type = "int"}
          = {dir_BtCommandByte[k] : k \in 1..49}
    /\ {BtCommandByte[dir_BtCommandByte[k]] : k \in 1..49} = {PyInt(c) : c \in 0..48}
    /\ (call.op = "findCommand" /\ call.err # "pending") =>
          /\ call.err = "none"
          /\ IF call.arg \in 0..48
             THEN /\ call.ret \in DOMAIN BtCommandByte
                  /\ PyEq(BtCommandByte[call.ret], PyInt(call.arg))
                  /\ \A x \in DOMAIN BtCommandByte :
                        PyEq(BtCommandByte[x], PyInt(call.arg)) => x = call.ret
             ELSE call.ret = "NO_MATCH_COMMAND"

\* findCommand has named the set-key code.
C16_Witness ==
    /\ call.op = "findCommand"
    /\ call.arg = 24
    /\ call.ret = "PRT_SET_CRC_KEY"

\* What one transport event shows: a receive, or the command, sequence and
\* payload of a frame.
Shape(e) ==
    IF e.ev = "recv" THEN <<"recv">>
    ELSE <<"send", FrameCmd(e.frame), FrameSeq(e.frame), FramePayload(e.frame)>>

\* The trace of printing an image whose chunks are these.
ImageTrace(chunks) ==
    << <<"send", PRT_SET_PAPER_TYPE, 0, <<0>> >>, <<"recv">> >>
    \o [k \in 1..Len(chunks) |-> <<"send", PRT_PRINT_DATA, k - 1, chunks[k]>>]
    \o << <<"send", PRT_FEED_LINE, 0, <<44, 1>> >>, <<"recv">> >>

\* C17: sendImageToBt puts on the wire one SET_PAPER_TYPE frame and one
\* receive, then the PRINT_DATA chunk frames in payload order with sequence
\* 0..N-1 and no receive, then one FEED_LINE frame with payload 300 as 2
\* little-endian bytes and one receive, and nothing else: the trace of every
\* call is a prefix of this one, each event follows the success of the one
\* before it, and when the transport does not fail the trace is the whole of
\* it and the call returns.
C17_ImageTrace ==
    call.op = "sendImageToBt" =>
        /\ Len(wire) <= Len(addBytesToList(call.image)) + 4
        /\ \A k \in 1..Len(wire) :
              /\ Shape(wire[k]) = ImageTrace(addBytesToList(call.image))[k]
              /\ k < Len(wire) => wire[k].ok
        /\ (sock = "open" /\ \A k \in 1..Len(wire) : wire[k].ok)
              => /\ Len(wire) = Len(addBytesToList(call.image)) + 4
                 /\ call.err = "none"

\* The order alone: the prefix part of C17.
C17_TraceOrder ==
    call.op = "sendImageToBt" =>
        /\ Len(wire) <= Len(addBytesToList(call.image)) + 4
        /\ \A k \in 1..Len(wire) :
              /\ Shape(wire[k]) = ImageTrace(addBytesToList(call.image))[k]
              /\ k < Len(wire) => wire[k].ok

\* C18: a step of any operation other than registerCrcKeyToBt (called by
\* itself or by connect / __init__) leaves crckeyset and crcKey unchanged, and
\* all frames a step hands to the socket carry checksums under one key, the
\* one active when the step started.
C18_OnlyRegisterChangesKey ==
    [][/\ call'.op \notin {"registerCrcKeyToBt", "connect", "__init__"}
            => (crckeyset' = crckeyset /\ crcKey' = crcKey)
       /\ \A k \in 1..Len(wire') :
            wire'[k].ev = "send" =>
                \E w \in {zlib_crc32(FramePayload(wire'[k].frame), ActiveKey)} :
                    FrameCrc(wire'[k].frame) = packI(w)
      ]_vars

\* A message of several chunks has been sent under a negotiated key other
\* than the default one.
C18_Witness ==
    /\ call.op \in {"sendToBt", "sendImageToBt"}
    /\ crckeyset
    /\ crcKey # DefaultKey
    /\ Len(Transmitted) >= 2
    /\ FrameCmd(Transmitted[2].frame) = PRT_PRINT_DATA

\* C19: when discovery finds no valid serial-port service (address known,
\* service never set) or no device, connect returns False without creating a
\* socket or handing over any frame, and the session built by __init__ has
\* connected = False and no key negotiated.
C19_DiscoveryFailureIsValue ==
    LET Reported ==
            /\ call.err = "none"
            /\ call.ret = "False"
            /\ wire = <<>>
            /\ sock = "noattr"
            /\ ~crckeyset
            /\ call.op = "__init__" => (obj = "live" /\ connected = "False")
    IN  /\ (/\ call.op \in {"__init__", "connect"}
            /\ address = "addr"
            /\ service = "noattr") => Reported
        /\ (/\ call.op \in {"__init__", "connect"}
            /\ address = "None"
            /\ call.err = "none") => Reported

====
